---- MODULE Spec2Model ----
(***************************************************************************)
(* Model of the FastAPI agent service (src/fastapi-agent/main.py): the     *)
(* environment configuration, the LLM factory build_llm, the cached and    *)
(* lock-guarded tool discovery get_mcp_tools_cached, the startup handler   *)
(* _warm_start and the POST /agent handler run_agent with its translation  *)
(* of exceptions into HTTP responses.                                      *)
(*                                                                         *)
(* Python strings that the code searches, lowers or concatenates are       *)
(* sequences of one-character strings; exceptions are records of a class   *)
(* name and a message.  One action is one stretch of a coroutine between   *)
(* two suspension points of the event loop (a contended lock.acquire(),    *)
(* the await of the tool fetch, asyncio.sleep, the await of agent.run).    *)
(***************************************************************************)
EXTENDS Naturals, Sequences, FiniteSets

\* ------------------------------------------------------------------ bounds
\* Number of POST /agent requests the model lets arrive.
NumRequests == 2

\* ------------------------------------------------------- program constants
\* range(1, 4): the last attempt number of the fetch loop.
MaxAttempts == 3
\* asyncio.sleep(0.5 * attempt), in milliseconds per attempt number.
BackoffUnitMs == 500

\* Python's None; a str is Str(chars), a list of tools is ListOf(tools).
None == [kind |-> "None"]
Str(chars) == [kind |-> "str", s |-> chars]

Warm == 0
Requests == 1..NumRequests
Tasks == {Warm} \cup Requests

\* ---------------------------------------------------------- Python strings
\* not x, for x a str or None.
Truthy(x) == x # None /\ x.s # <<>>

\* sub in s
Contains(s, sub) ==
    \E i \in 0..(Len(s) - Len(sub)) : SubSeq(s, i + 1, i + Len(sub)) = sub

LowerChar(c) ==
    CASE c = "O" -> "o"
      [] c = "L" -> "l"
      [] c = "A" -> "a"
      [] c = "M" -> "m"
      [] OTHER -> c

\* str.lower()
Lower(s) == [i \in 1..Len(s) |-> LowerChar(s[i])]

\* ------------------------------------------------------------- exceptions
Exc(type, msg) == [type |-> type, msg |-> msg]

\* The direct base class of each exception class that occurs.
BaseOf(type) ==
    CASE type = "ConnectionError" -> "OSError"
      [] type = "OSError" -> "Exception"
      [] type = "RuntimeError" -> "Exception"
      [] type = "ValueError" -> "Exception"
      [] type = "TypeError" -> "Exception"
      [] type = "McpError" -> "Exception"
      [] OTHER -> "BaseException"

RECURSIVE IsInstance(_, _)
\* isinstance(e, cls) by the class name of e
IsInstance(type, cls) ==
    IF type = cls THEN TRUE
    ELSE IF type = "BaseException" THEN FALSE
    ELSE IsInstance(BaseOf(type), cls)

\* ------------------------------------------------------------ environment
\* The values os.getenv may give the settings the code reads.
Environments ==
    LET base == [LLM_CHOICE |-> None, OLLAMA_MODEL |-> None, OLLAMA_BASE_URL |-> None,
                 LITELLM_MODEL |-> None, LITELLM_API_KEY |-> None,
                 LITELLM_API_BASE |-> None]
        ollama == [base EXCEPT !.LLM_CHOICE = Str(<<"O", "l", "l", "a", "m", "a">>), !.OLLAMA_MODEL = Str(<<"m">>),
                               !.OLLAMA_BASE_URL = Str(<<"u">>)]
        litellm == [base EXCEPT !.LLM_CHOICE = Str(<<"l", "i", "t", "e", "l", "l", "m">>), !.LITELLM_MODEL = Str(<<"m">>),
                                !.LITELLM_API_KEY = Str(<<"k">>), !.LITELLM_API_BASE = Str(<<"u">>)]
    IN  { base,
          [base EXCEPT !.LLM_CHOICE = Str(<<>>)],
          ollama,
          [ollama EXCEPT !.OLLAMA_MODEL = None],
          [ollama EXCEPT !.OLLAMA_BASE_URL = Str(<<>>)],
          litellm,
          [litellm EXCEPT !.LITELLM_API_KEY = None],
          [litellm EXCEPT !.LITELLM_MODEL = None],
          [litellm EXCEPT !.LITELLM_API_BASE = None],
          [ollama EXCEPT !.LLM_CHOICE = Str(<<"g", "p", "t">>)],
          [litellm EXCEPT !.LLM_CHOICE = Str(<<"e", "r", "r", "o", "r", " ", "p", "a", "r", "s", "i", "n", "g", " ", "t", "o", "o", "l", " ", "c", "a", "l", "l">>)] }

ServerUrls == { None, Str(<<"h", "t", "t", "p", ":", "/", "/", "m", "c", "p">>) }

VARIABLES
    env,              \* LLM_CHOICE, OLLAMA_*, LITELLM_* as read at import
    MCP_SERVER_URL,
    _MCP_TOOLS,       \* the cache: None or a list of tools
    _MCP_INIT_ERROR,  \* None or the exception of the last failed initialization
    locked,           \* _MCP_INIT_LOCK._locked
    waiters,          \* _MCP_INIT_LOCK._waiters, in arrival order
    woken,            \* the waiters whose future release() has completed
    pc,               \* where each task is suspended
    attempt,          \* the loop variable of each call in the fetch loop
    last_exc,         \* last_exc of each call in the fetch loop
    http,             \* status of the response of each request, 0 before it
    output,           \* "output" of the 200 response of each request, "" without one
    caught,           \* the exception run_agent's except clause caught
    ret,              \* what each task's get_mcp_tools_cached call gave
    fetched,          \* what the latest fetch attempt of each call gave
    fetches,          \* fetch attempts made by each call
    waits,            \* the sleeps of each call, in milliseconds
    overlap,          \* pairs of tasks whose calls were in progress together
    failedCalls,      \* calls that ended by exhausting their attempts
    totalFetches,     \* fetch attempts made in the process
    acquires          \* calls of _MCP_INIT_LOCK.acquire() made in the process

cfgVars == <<env, MCP_SERVER_URL>>
cacheVars == <<_MCP_TOOLS, _MCP_INIT_ERROR>>
lockVars == <<locked, waiters, woken>>
lockUse == <<locked, waiters, woken, acquires>>
loopVars == <<attempt, last_exc, fetched, fetches, waits, totalFetches>>
respVars == <<http, output, caught>>
vars == <<env, MCP_SERVER_URL, _MCP_TOOLS, _MCP_INIT_ERROR, locked, waiters, woken,
          pc, attempt, last_exc, http, output, caught, ret, fetched, fetches, waits,
          overlap, failedCalls, totalFetches, acquires>>

\* --------------------------------------------------------------- build_llm
\* The outcome of build_llm(): a handle, or the ValueError it raises.
build_llm ==
    IF ~Truthy(env.LLM_CHOICE)
    THEN [kind |-> "exc", exc |-> Exc("ValueError", <<"L", "L", "M", "_", "C", "H", "O", "I", "C", "E", " ", "i", "s", " ", "n", "o", "t", " ", "s", "e", "t">>)]
    ELSE IF Lower(env.LLM_CHOICE.s) = <<"o", "l", "l", "a", "m", "a">>
    THEN IF ~Truthy(env.OLLAMA_MODEL) \/ ~Truthy(env.OLLAMA_BASE_URL)
         THEN [kind |-> "exc",
               exc |-> Exc("ValueError",
                           <<"O", "L", "L", "A", "M", "A", "_", "M", "O", "D", "E", "L", " ", "a", "n", "d", " ", "O", "L", "L", "A", "M", "A", "_", "B", "A", "S", "E", "_", "U", "R", "L", " ", "m", "u", "s", "t", " ", "b", "e", " ", "s", "e", "t", " ", "f", "o", "r", " ", "O", "l", "l", "a", "m", "a">>)]
         ELSE [kind |-> "llm", llm |-> "Ollama"]
    ELSE IF Lower(env.LLM_CHOICE.s) = <<"l", "i", "t", "e", "l", "l", "m">>
    THEN IF ~(Truthy(env.LITELLM_MODEL) /\ Truthy(env.LITELLM_API_BASE)
              /\ Truthy(env.LITELLM_API_KEY))
         THEN [kind |-> "exc",
               exc |-> Exc("ValueError",
                           <<"L", "I", "T", "E", "L", "L", "M", "_", "M", "O", "D", "E", "L", ",", " ", "L", "I", "T", "E", "L", "L", "M", "_", "A", "P", "I", "_", "B", "A", "S", "E", " ", "a", "n", "d", " ", "L", "I", "T", "E", "L", "L", "M", "_", "A", "P", "I", "_", "K", "E", "Y", " ", "m", "u", "s", "t", " ", "b", "e", " ", "s", "e", "t", " ", "f", "o", "r", " ", "L", "i", "t", "e", "L", "L", "M">>)]
         ELSE [kind |-> "llm", llm |-> "LiteLLM"]
    ELSE [kind |-> "exc",
          exc |-> Exc("ValueError", <<"U", "n", "s", "u", "p", "p", "o", "r", "t", "e", "d", " ", "L", "L", "M", "_", "C", "H", "O", "I", "C", "E", ":", " ">> \o env.LLM_CHOICE.s)]

\* ------------------------------------------- run_agent: the except clause
Apology == "I encountered an issue with tool formatting. Please try a simpler request or rephrase your question."

\* if "error parsing tool call" in str(e)
IsToolCallParseError(e) == Contains(e.msg, <<"e", "r", "r", "o", "r", " ", "p", "a", "r", "s", "i", "n", "g", " ", "t", "o", "o", "l", " ", "c", "a", "l", "l">>)

\* if isinstance(e, RuntimeError) and ("MCP" in str(e) or "tools" in str(e))
IsWarmingUp(e) ==
    IsInstance(e.type, "RuntimeError")
    /\ (Contains(e.msg, <<"M", "C", "P">>) \/ Contains(e.msg, <<"t", "o", "o", "l", "s">>))

\* Variant: the 503 test comes before the test for the tool-call message.
ClassifyWarmupFirst(e) ==
    IF IsWarmingUp(e) THEN [status |-> 503, output |-> ""]
    ELSE IF IsToolCallParseError(e) THEN [status |-> 200, output |-> Apology]
    ELSE [status |-> 500, output |-> ""]

\* The response the except clause of run_agent gives for exception e.
Classify(e) ==
    IF IsToolCallParseError(e) THEN [status |-> 200, output |-> Apology]
    ELSE IF IsWarmingUp(e) THEN [status |-> 503, output |-> ""]
    ELSE [status |-> 500, output |-> ""]

\* ------------------------------------------ run_agent: the text extraction
NoOutput == "No output generated"

RECURSIVE FirstText(_, _)
\* The loop over result.response.blocks: the first truthy block.text.
FirstText(blocks, dflt) ==
    IF blocks = <<>> THEN dflt
    ELSE IF Head(blocks).hasText /\ Head(blocks).text # ""
         THEN Head(blocks).text
         ELSE FirstText(Tail(blocks), dflt)

\* The outcome of the extraction: the text, or the exception a len() raises.
ExtractText(result) ==
    IF result.hasResponse /\ result.hasBlocks
    THEN IF result.blocksNone
         THEN [kind |-> "exc",
               exc |-> Exc("TypeError", <<"o", "b", "j", "e", "c", "t", " ", "o", "f", " ", "t", "y", "p", "e", " ", "'", "N", "o", "n", "e", "T", "y", "p", "e", "'", " ", "h", "a", "s", " ", "n", "o", " ", "l", "e", "n", "(", ")">>)]
         ELSE [kind |-> "text", text |-> FirstText(result.blocks, NoOutput)]
    ELSE [kind |-> "text", text |-> NoOutput]

\* ------------------------------------------------- what the outside gives
\* What one await of aget_tools_from_mcp_url may give: a list of tools,
\* possibly empty, or an exception of the client.
FetchOutcomes ==
    { [kind |-> "list", tools |-> <<"search">>],
      [kind |-> "list", tools |-> <<"search", "read">>],
      [kind |-> "list", tools |-> <<>>],
      [kind |-> "exc", exc |-> Exc("ConnectionError", <<"c", "o", "n", "n", "e", "c", "t", "i", "o", "n", " ", "r", "e", "f", "u", "s", "e", "d">>)],
      [kind |-> "exc", exc |-> Exc("RuntimeError", <<"M", "C", "P", " ", "e", "r", "r", "o", "r", " ", "p", "a", "r", "s", "i", "n", "g", " ", "t", "o", "o", "l", " ", "c", "a", "l", "l">>)] }

\* What AgentWorkflow.from_tools_or_functions may give.
ConstructOutcomes ==
    { [kind |-> "agent"],
      [kind |-> "exc", exc |-> Exc("RuntimeError", <<"t", "o", "o", "l", "s", ":", " ", "e", "r", "r", "o", "r", " ", "p", "a", "r", "s", "i", "n", "g", " ", "t", "o", "o", "l", " ", "c", "a", "l", "l">>)] }

\* What the await of agent.run may give: a result object or an exception.
RunOutcomes ==
    { [kind |-> "exc", exc |-> Exc("ValueError", <<"e", "r", "r", "o", "r", " ", "p", "a", "r", "s", "i", "n", "g", " ", "t", "o", "o", "l", " ", "c", "a", "l", "l", ":", " ", "b", "a", "d", " ", "J", "S", "O", "N">>)],
      [kind |-> "exc", exc |-> Exc("McpError", <<"M", "C", "P", " ", "c", "a", "l", "l", " ", "f", "a", "i", "l", "e", "d">>)],
      [kind |-> "result",
       result |-> [hasResponse |-> FALSE, hasBlocks |-> FALSE, blocksNone |-> FALSE, blocks |-> <<>>]],
      [kind |-> "result",
       result |-> [hasResponse |-> TRUE, hasBlocks |-> TRUE, blocksNone |-> FALSE, blocks |-> <<>>]],
      [kind |-> "result",
       result |-> [hasResponse |-> TRUE, hasBlocks |-> TRUE, blocksNone |-> TRUE, blocks |-> <<>>]],
      [kind |-> "result",
       result |-> [hasResponse |-> TRUE, hasBlocks |-> TRUE, blocksNone |-> FALSE,
                   blocks |-> << [hasText |-> FALSE, text |-> ""],
                                 [hasText |-> TRUE, text |-> ""],
                                 [hasText |-> TRUE, text |-> "answer"],
                                 [hasText |-> TRUE, text |-> "more"] >>]] }

ListOf(tools) == [kind |-> "list", tools |-> tools]
Raised(e) == [kind |-> "exc", exc |-> e]

\* The tasks whose get_mcp_tools_cached call is in progress.
InCall == { t \in Tasks : pc[t] \in {"waiting", "fetching", "sleeping"} }

\* ------------------------------------------------------------------- Init
Init ==
    /\ env \in Environments
    /\ MCP_SERVER_URL \in ServerUrls
    /\ _MCP_TOOLS = None
    /\ _MCP_INIT_ERROR = None
    /\ locked = FALSE
    /\ waiters = <<>>
    /\ woken = {}
    /\ pc = [t \in Tasks |-> "idle"]
    /\ attempt = [t \in Tasks |-> 0]
    /\ last_exc = [t \in Tasks |-> None]
    /\ http = [t \in Tasks |-> 0]
    /\ output = [t \in Tasks |-> ""]
    /\ caught = [t \in Tasks |-> None]
    /\ ret = [t \in Tasks |-> None]
    /\ fetched = [t \in Tasks |-> None]
    /\ fetches = [t \in Tasks |-> 0]
    /\ waits = [t \in Tasks |-> <<>>]
    /\ overlap = {}
    /\ failedCalls = 0
    /\ totalFetches = 0
    /\ acquires = 0

\* ------------------------------------------------------- the asyncio.Lock
\* Variant: the section is entered without the lock.
LockAlwaysFree == TRUE

\* Lock.acquire() returns at once: not locked and nobody queued before.
LockIsFree == ~locked /\ waiters = <<>>

\* The lock is held by t on; w is the queue without t.
Hold(t, w) ==
    /\ locked' = TRUE
    /\ waiters' = w
    /\ woken' = woken \ {t}

\* Variant: a way out that leaves the lock held.
ReleaseKeepsLocked(t, w) ==
    /\ locked' = TRUE
    /\ waiters' = w
    /\ woken' = woken \ {t}

\* Leaving "async with": release() frees the lock and completes the future of
\* the first waiter; w is the queue without t.
Release(t, w) ==
    /\ locked' = FALSE
    /\ waiters' = w
    /\ woken' = (woken \ {t}) \cup (IF w = <<>> THEN {} ELSE {Head(w)})

\* --------------------------------------------------------------- run_agent
Respond(t, r, e) ==
    /\ pc' = [pc EXCEPT ![t] = "done"]
    /\ http' = [http EXCEPT ![t] = r.status]
    /\ output' = [output EXCEPT ![t] = r.output]
    /\ caught' = [caught EXCEPT ![t] = e]

\* An exception reaches the except clause of run_agent.
Fail(t, e) == Respond(t, Classify(e), e)

\* get_mcp_tools_cached gives o to its caller: _warm_start logs it and ends;
\* run_agent translates an exception, and with a list builds the agent and
\* suspends in agent.run.
CallReturns(t, o) ==
    /\ ret' = [ret EXCEPT ![t] = o]
    /\ IF t = Warm
       THEN pc' = [pc EXCEPT ![t] = "done"] /\ UNCHANGED respVars
       ELSE IF o.kind = "exc"
       THEN Fail(t, o.exc)
       ELSE \E c \in ConstructOutcomes :
                IF c.kind = "exc"
                THEN Fail(t, c.exc)
                ELSE pc' = [pc EXCEPT ![t] = "running"] /\ UNCHANGED respVars

\* ---------------------------------------------------- get_mcp_tools_cached
\* Variant: the check before the lock is missing.
FastPathSkipped == FALSE

\* if _MCP_TOOLS is not None, before the lock
FastPath == _MCP_TOOLS # None

\* if _MCP_TOOLS is not None, re-checked under the lock
Recheck == _MCP_TOOLS # None

\* Variant: the test for an empty list is missing.
FetchSucceededAnyList(o) == o.kind = "list"

\* if not tools: raise; otherwise the attempt succeeded
FetchSucceeded(o) == o.kind = "list" /\ o.tools # <<>>

\* The exception the except clause of the loop binds for outcome o.
AttemptError(o) ==
    IF o.kind = "list" THEN Exc("RuntimeError", <<"M", "C", "P", " ", "r", "e", "t", "u", "r", "n", "e", "d", " ", "z", "e", "r", "o", " ", "t", "o", "o", "l", "s">>) ELSE o.exc

\* Variant: the failure is cached as an empty list.
ToolsCachedEmptyOnExhaustion == ListOf(<<>>)

\* The cache after the loop has used up its attempts.
ToolsAfterExhaustion == _MCP_TOOLS

\* The call returns or raises out of the loop: its locals are gone.
DropLocals(t) ==
    /\ attempt' = [attempt EXCEPT ![t] = 0]
    /\ last_exc' = [last_exc EXCEPT ![t] = None]

\* Attempt k begins: BasicMCPClient(...) and the await of the fetch.
StartAttempt(t, k) ==
    /\ pc' = [pc EXCEPT ![t] = "fetching"]
    /\ attempt' = [attempt EXCEPT ![t] = k]
    /\ fetches' = [fetches EXCEPT ![t] = @ + 1]
    /\ totalFetches' = totalFetches + 1
    /\ UNCHANGED <<last_exc, fetched, waits>>

\* The body of "async with _MCP_INIT_LOCK" up to its first suspension.
Locked(t, w) ==
    IF Recheck
    THEN /\ Release(t, w)
         /\ CallReturns(t, _MCP_TOOLS)
         /\ UNCHANGED <<cacheVars, loopVars, failedCalls>>
    ELSE IF ~Truthy(MCP_SERVER_URL)
    THEN /\ Release(t, w)
         /\ CallReturns(t, Raised(Exc("RuntimeError", <<"M", "C", "P", "_", "S", "E", "R", "V", "E", "R", "_", "U", "R", "L", " ", "i", "s", " ", "n", "o", "t", " ", "c", "o", "n", "f", "i", "g", "u", "r", "e", "d">>)))
         /\ UNCHANGED <<cacheVars, loopVars, failedCalls>>
    ELSE /\ Hold(t, w)
         /\ StartAttempt(t, 1)
         /\ UNCHANGED <<cacheVars, respVars, ret, failedCalls>>

\* get_mcp_tools_cached from its first line to its first suspension.
Enter(t) ==
    IF FastPath
    THEN /\ CallReturns(t, _MCP_TOOLS)
         /\ UNCHANGED <<cacheVars, lockUse, loopVars, failedCalls, overlap>>
    ELSE IF LockIsFree
    THEN Locked(t, waiters) /\ acquires' = acquires + 1 /\ UNCHANGED overlap
    ELSE /\ waiters' = Append(waiters, t)
         /\ acquires' = acquires + 1
         /\ pc' = [pc EXCEPT ![t] = "waiting"]
         /\ overlap' = overlap \cup { {t, u} : u \in InCall }
         /\ UNCHANGED <<locked, woken, cacheVars, loopVars, failedCalls, respVars, ret>>

\* ----------------------------------------------------------------- actions
\* _warm_start: build_llm() with its exception logged, then the first call.
WarmStart ==
    /\ pc[Warm] = "idle"
    /\ Enter(Warm)
    /\ UNCHANGED cfgVars

\* POST /agent arrives (the server accepts requests once startup has ended).
Request(t) ==
    /\ pc[t] = "idle"
    /\ pc[Warm] = "done"
    /\ IF build_llm.kind = "exc"
       THEN /\ Fail(t, build_llm.exc)
            /\ UNCHANGED <<cacheVars, lockUse, loopVars, failedCalls, overlap, ret>>
       ELSE Enter(t)
    /\ UNCHANGED cfgVars

\* A queued caller, its future completed, gets the lock.
Resume(t) ==
    /\ pc[t] = "waiting"
    /\ t \in woken
    /\ Locked(t, SelectSeq(waiters, LAMBDA x : x # t))
    /\ UNCHANGED <<cfgVars, overlap, acquires>>

\* The await of aget_tools_from_mcp_url ends.
FetchReturn(t) ==
    /\ pc[t] = "fetching"
    /\ \E o \in FetchOutcomes :
        /\ fetched' = [fetched EXCEPT ![t] = o]
        /\ IF FetchSucceeded(o)
           THEN /\ _MCP_TOOLS' = ListOf(o.tools)
                /\ _MCP_INIT_ERROR' = None
                /\ Release(t, waiters)
                /\ CallReturns(t, ListOf(o.tools))
                /\ DropLocals(t)
                /\ UNCHANGED <<fetches, waits, totalFetches>>
           ELSE /\ last_exc' = [last_exc EXCEPT ![t] = AttemptError(o)]
                /\ pc' = [pc EXCEPT ![t] = "sleeping"]
                /\ waits' = [waits EXCEPT ![t] = Append(@, BackoffUnitMs * attempt[t])]
                /\ UNCHANGED <<cacheVars, lockVars, respVars, ret, attempt, fetches,
                               totalFetches>>
    /\ UNCHANGED <<cfgVars, overlap, failedCalls, acquires>>

\* asyncio.sleep(0.5 * attempt) ends: the next attempt, or after the last
\* one the error is kept and raised.
SleepDone(t) ==
    /\ pc[t] = "sleeping"
    /\ IF attempt[t] < MaxAttempts
       THEN /\ StartAttempt(t, attempt[t] + 1)
            /\ UNCHANGED <<cacheVars, lockVars, respVars, ret, failedCalls>>
       ELSE LET e == IF last_exc[t] # None THEN last_exc[t]
                     ELSE Exc("RuntimeError", <<"U", "n", "k", "n", "o", "w", "n", " ", "M", "C", "P", " ", "i", "n", "i", "t", " ", "e", "r", "r", "o", "r">>)
            IN  /\ _MCP_TOOLS' = ToolsAfterExhaustion
                /\ _MCP_INIT_ERROR' = e
                /\ Release(t, waiters)
                /\ CallReturns(t, Raised(e))
                /\ failedCalls' = failedCalls + 1
                /\ DropLocals(t)
                /\ UNCHANGED <<fetched, fetches, waits, totalFetches>>
    /\ UNCHANGED <<cfgVars, overlap, acquires>>

\* The await of agent.run ends; the text is extracted and returned.
RunReturn(t) ==
    /\ pc[t] = "running"
    /\ \E o \in RunOutcomes :
        IF o.kind = "exc"
        THEN Fail(t, o.exc)
        ELSE LET x == ExtractText(o.result)
             IN  IF x.kind = "exc"
                 THEN Fail(t, x.exc)
                 ELSE Respond(t, [status |-> 200, output |-> x.text], None)
    /\ UNCHANGED <<cfgVars, cacheVars, lockUse, loopVars, failedCalls, overlap, ret>>

Next ==
    \/ WarmStart
    \/ \E t \in Requests : Request(t)
    \/ \E t \in Tasks : Resume(t)
    \/ \E t \in Tasks : FetchReturn(t)
    \/ \E t \in Tasks : SleepDone(t)
    \/ \E t \in Requests : RunReturn(t)

Spec == Init /\ [][Next]_vars

\* The event loop runs a caller whose lock future is completed (the lock
\* wakes its waiters in arrival order), and every fetch and every sleep ends.
Fairness ==
    /\ \A t \in Tasks : WF_vars(Resume(t))
    /\ \A t \in Tasks : WF_vars(FetchReturn(t))
    /\ \A t \in Tasks : WF_vars(SleepDone(t))

FairSpec == Spec /\ Fairness

\* ================================================================ claims
ZeroTools == Exc("RuntimeError", <<"M", "C", "P", " ", "r", "e", "t", "u", "r", "n", "e", "d", " ", "z", "e", "r", "o", " ", "t", "o", "o", "l", "s">>)
Returned(t) == ret[t] # None
\* t's call ended by raising after the fetch loop.
Exhausted(t) == Returned(t) /\ ret[t].kind = "exc" /\ fetches[t] > 0
\* t's call made a fetch attempt that gave a non-empty list.
Succeeded(t) == fetched[t] # None /\ fetched[t].kind = "list" /\ fetched[t].tools # <<>>
\* Two distinct callers whose calls were in progress together, both ended.
ConcurrentPairs ==
    { p \in overlap : \A t \in p : Returned(t) }

\* C1 (as stated): callers that arrive together while the cache is
\* unpopulated share one fetch sequence and one outcome, on success and on
\* failure.
C1_OneSequenceOneOutcome ==
    \A p \in ConcurrentPairs : \A t \in p : \A u \in p \ {t} :
        /\ ret[t] = ret[u]
        /\ ~(fetches[t] > 0 /\ fetches[u] > 0)

\* What the code gives such callers instead: at most one of them fetches
\* with success, and those that get a list get that one list, the others of
\* them without fetching; a caller that raises has used up 3 attempts of its
\* own, and a caller that made no attempt got the list.
OneSuccessfulSequence ==
    \A p \in ConcurrentPairs : \A t \in p : \A u \in p \ {t} :
        /\ (ret[t].kind = "list" /\ ret[u].kind = "list")
              => /\ ret[t] = ret[u]
                 /\ ret[t] = _MCP_TOOLS
                 /\ fetches[t] = 0 \/ fetches[u] = 0
        /\ ~(Succeeded(t) /\ Succeeded(u))
        /\ ret[t].kind = "exc" => fetches[t] = MaxAttempts
        /\ fetches[t] = 0 => ret[t].kind = "list"

\* Two callers arrived together; the first used up its attempts and raised,
\* the second then fetched the list itself.
SecondSequenceRan ==
    \E p \in ConcurrentPairs : \E t \in p : \E u \in p \ {t} :
        /\ Exhausted(t)
        /\ ret[u].kind = "list" /\ fetches[u] > 0

\* C2: at most one caller is between acquiring and leaving _MCP_INIT_LOCK
\* (fetching or in a backoff sleep), and it holds the lock.
C2_MutualExclusion ==
    LET inside == { t \in Tasks : pc[t] \in {"fetching", "sleeping"} }
    IN  /\ Cardinality(inside) <= 1
        /\ inside # {} => locked
        /\ \A t \in Tasks : pc[t] = "waiting" => t \notin inside

\* One caller sleeps between attempts while another is queued on the lock.
C2_Witness ==
    \E t \in Tasks : \E u \in Tasks :
        pc[t] = "sleeping" /\ attempt[t] = 2 /\ pc[u] = "waiting"

\* C3: once populated the cache never changes, no fetch attempt is made
\* again, every call that ends gives that list, a call that starts then
\* does not touch the lock, and at most one fetch ever succeeded.
C3_PopulatedIsTerminal ==
    /\ [](Cardinality({ t \in Tasks : Succeeded(t) }) <= 1)
    /\ [][ _MCP_TOOLS # None =>
             /\ _MCP_TOOLS' = _MCP_TOOLS
             /\ totalFetches' = totalFetches
             /\ \A t \in Tasks : ret'[t] # ret[t] => ret'[t] = _MCP_TOOLS
             /\ \A t \in Tasks :
                   (pc[t] = "idle" /\ ret'[t] # None)
                      => (acquires' = acquires /\ UNCHANGED lockVars) ]_vars

\* A call that started with the cache populated returned the list without
\* a fetch and without ever being queued with another caller.
C3_Witness ==
    \E t \in Requests :
        /\ Returned(t) /\ ret[t] = _MCP_TOOLS
        /\ fetches[t] = 0
        /\ \A p \in overlap : t \notin p
        /\ acquires = 1

\* C4: an attempt that gives an empty list is a failed attempt: it is
\* followed by the backoff with the zero-tools error bound, it counts among
\* the 3 attempts, it is never returned; the cache is None or non-empty.
C4_EmptyListIsFailure ==
    /\ _MCP_TOOLS = None \/ _MCP_TOOLS.tools # <<>>
    /\ \A t \in Tasks :
        /\ fetches[t] <= MaxAttempts
        /\ Returned(t) => ret[t] # ListOf(<<>>)
        /\ fetched[t] = ListOf(<<>>) =>
              /\ \/ pc[t] = "sleeping"
                 \/ pc[t] = "fetching" /\ fetches[t] = Len(waits[t]) + 1
                 \/ Returned(t)
              /\ pc[t] = "sleeping" =>
                    (last_exc[t] = ZeroTools /\ Len(waits[t]) = fetches[t])
              /\ Returned(t) => (ret[t] = Raised(ZeroTools) /\ fetches[t] = MaxAttempts)

\* A call whose third attempt gave an empty list raised the zero-tools error.
C4_Witness ==
    \E t \in Tasks :
        fetched[t] = ListOf(<<>>) /\ ret[t] = Raised(ZeroTools) /\ fetches[t] = MaxAttempts

\* C5: a call that uses up its attempts leaves the cache unpopulated, and a
\* call that finds it unpopulated (the address configured) goes for the lock
\* and starts at attempt 1 whatever failed before; an attempt that succeeds
\* gives its list to the caller.
C5_FailureIsNotCached ==
    /\ []((\A t \in Tasks : ~Succeeded(t)) => _MCP_TOOLS = None)
    /\ [][ \A t \in Tasks :
             /\ (/\ pc[t] \in {"idle", "waiting"}
                 /\ pc'[t] \notin {"idle", "waiting"}
                 /\ t \in Requests => build_llm.kind = "llm"
                 /\ _MCP_TOOLS = None
                 /\ Truthy(MCP_SERVER_URL))
                   => (pc'[t] = "fetching" /\ attempt'[t] = 1 /\ fetches'[t] = 1)
             /\ (pc[t] = "idle" /\ pc'[t] = "waiting") => locked \/ waiters # <<>>
             /\ (pc[t] = "fetching" /\ Succeeded(t)')
                   => (ret'[t] = fetched'[t] /\ _MCP_TOOLS' = fetched'[t]) ]_vars

\* Two calls failed, and a later call fetched and returned the list.
C5_Witness ==
    /\ failedCalls >= 2
    /\ \E t \in Requests : ret[t].kind = "list" /\ ret[t] = _MCP_TOOLS /\ fetches[t] > 0

\* C6 (as stated): LLM buildable, address configured, every attempt of the
\* call failed, with an error that is not the tool-call message of C8: the
\* response is 503.
C6_UnreachableGives503 ==
    \A t \in Requests :
        (/\ pc[t] = "done" /\ build_llm.kind = "llm" /\ Truthy(MCP_SERVER_URL)
         /\ Exhausted(t) /\ ~IsToolCallParseError(ret[t].exc))
           => http[t] = 503

\* C7 (as stated): a request that meets a configuration error (LLM not
\* buildable, or the tool-server address not configured) is answered 500.
C7_ConfigErrorGives500 ==
    \A t \in Requests :
        (pc[t] = "done" /\ (build_llm.kind = "exc" \/ ~Truthy(MCP_SERVER_URL)))
           => http[t] = 500

\* C8: a request whose exception message contains "error parsing tool call"
\* is answered 200 with the apology, whatever the class of the exception
\* and whatever else the message contains.
C8_ParseErrorGivesApology ==
    \A t \in Requests :
        (pc[t] = "done" /\ caught[t] # None /\ IsToolCallParseError(caught[t]))
           => (http[t] = 200 /\ output[t] = Apology)

\* A RuntimeError naming MCP and the tool-call message was answered 200.
C8_Witness ==
    \E t \in Requests :
        /\ pc[t] = "done" /\ caught[t] # None
        /\ IsToolCallParseError(caught[t]) /\ IsWarmingUp(caught[t])
        /\ http[t] = 200

\* C9 (as stated): at most 3 attempts; a call whose 3 attempts fail has
\* waited twice, 0.5 s and 1.0 s, and a call that succeeds at attempt k has
\* waited k - 1 times.
C9_WaitsOnlyBetweenAttempts ==
    \A t \in Tasks :
        /\ fetches[t] <= MaxAttempts
        /\ Exhausted(t) => waits[t] = <<BackoffUnitMs, 2 * BackoffUnitMs>>
        /\ (Returned(t) /\ Succeeded(t)) => Len(waits[t]) = fetches[t] - 1

\* C10: the lock is free whenever no call is in progress; a call that uses
\* up its attempts raises the error of its last attempt and leaves it in
\* _MCP_INIT_ERROR; every call in progress ends (a call that never ended
\* would keep InCall non-empty for ever).
C10_LockReleasedCallsEnd ==
    /\ [](InCall = {} => (~locked /\ waiters = <<>> /\ woken = {}))
    /\ [][ \A t \in Tasks :
             (~Returned(t) /\ Exhausted(t)')
                => /\ ret'[t] = Raised(AttemptError(fetched[t]))
                   /\ _MCP_INIT_ERROR' = ret'[t].exc
                   /\ ~locked' ]_vars
    /\ (InCall # {}) ~> (InCall = {})

\* A caller that was queued behind a failing caller got the lock and raised
\* too, and nothing is held at the end.
C10_Witness ==
    /\ InCall = {} /\ ~locked
    /\ \E p \in overlap : \A t \in p : Exhausted(t)
====
